---- MODULE Spec2Model ----
(***************************************************************************)
(* A model of the two MetaPhlAn profile utilities                          *)
(*   metaphlan/utils/fix_relab_mpa4.py       (fix_relab_mpa4)              *)
(*   metaphlan/utils/sgb_to_gtdb_profile.py  (get_gtdb_profile)            *)
(* One behaviour is one run of one script on one input file.  The file is  *)
(* read line by line (the lines already read are kept in rf), then the     *)
(* rank tables are rolled up, summed, normalised and written to wf.        *)
(*                                                                         *)
(* Representation.  A lineage 'a|b|c' is the sequence of its '|'-separated *)
(* segments, the result of split('|'); the empty string is <<EmptySeg>>,   *)
(* as ''.split('|') = ['']. A segment 'p__Bacillota' is the pair           *)
(* <<"p", "Bacillota">> so that the test 't__' in line can be computed.    *)
(* Abundances are fixed-point numbers with ndigits decimals: 95.0 is       *)
(* 95 * Scale.  Python dicts are sequences of <<key, value>> pairs in      *)
(* insertion order.  In merged mode a cell of a rank table is a reference  *)
(* into heap, because the code shares and mutates list objects.            *)
(***************************************************************************)
EXTENDS Integers, Sequences, FiniteSets, TLC

VARIABLES
    script,                 \* which utility runs: "fix_relab_mpa4" or "sgb_to_gtdb_profile"
    merged,                 \* fix_relab_mpa4: the --merged_profiles flag
    pc,                     \* position in the running function
    rf,                     \* the lines read so far from the input
    wf,                     \* the lines written so far to the output
    release,                \* fix_relab_mpa4: release tag of the header, None before
    unclassified_fraction,  \* fix_relab_mpa4: <<>> is the initial int 0 of merged mode
    taxa_levs,              \* fix_relab_mpa4: the 8 rank tables
    heap,                   \* fix_relab_mpa4, merged: the list / array objects
    ncols,                  \* fix_relab_mpa4, merged: 0 while the name is unbound
    sum_level,              \* fix_relab_mpa4: per level sums
    level,                  \* fix_relab_mpa4: next level to normalise and write
    rolled,                 \* history: the tables' values right after the roll-up
    unclassified,           \* get_gtdb_profile
    abundances,             \* get_gtdb_profile: the 7 rank tables
    total4level             \* get_gtdb_profile

vars == <<script, merged, pc, rf, wf, release, unclassified_fraction, taxa_levs,
          heap, ncols, sum_level, level, rolled, unclassified, abundances, total4level>>

fixVars == <<merged, release, unclassified_fraction, taxa_levs, heap, ncols,
             sum_level, level, rolled>>
gtdbVars == <<unclassified, abundances, total4level>>

\* ------------------------------------------------------------------ bounds
\* The longest input file, in lines.
MaxLines == 3

\* --------------------------------------------------------------- constants
NLevels == 8
ndigits == 5

RECURSIVE Pow10(_)
Pow10(k) == IF k = 0 THEN 1 ELSE 10 * Pow10(k - 1)

\* One unit of abundance (1.0) in fixed point.
Scale == Pow10(ndigits)

\* ------------------------------------------------------------------ helpers
RECURSIVE SumSeq(_)
SumSeq(s) == IF s = <<>> THEN 0 ELSE Head(s) + SumSeq(Tail(s))

Front(s) == SubSeq(s, 1, Len(s) - 1)

AddVec(a, b) == [n \in 1..Len(a) |-> a[n] + b[n]]

Zeros(n) == [k \in 1..n |-> 0]

\* Python dict as a sequence of <<key, value>> in insertion order.
Has(d, k) == \E i \in 1..Len(d) : d[i][1] = k
Get(d, k) == d[CHOOSE i \in 1..Len(d) : d[i][1] = k][2]
Put(d, k, v) ==
    IF Has(d, k)
    THEN [i \in 1..Len(d) |-> IF d[i][1] = k THEN <<k, v>> ELSE d[i]]
    ELSE Append(d, <<k, v>>)

\* ----------------------------------------------------- the strings of the code
EmptySeg == <<"", "">>

\* '|'.join(x.split('|')[:-1]) on the split representation.
Parent(ss) == IF Len(ss) <= 1 THEN <<EmptySeg>> ELSE Front(ss)

Jun23 == <<"mpa", "vJun23", "CHOCOPhlAnSGB", "202307">>
Oct22 == <<"mpa", "vOct22", "CHOCOPhlAnSGB", "202212">>
Jan21 == <<"mpa", "vJan21", "CHOCOPhlAnSGB", "202103">>
None == <<>>

\* The header written for a header line: the text before the last '_', then _202403.
RewriteHeader(parts) == Front(parts) \o <<"202403">>

\* round(100 * a / total_sum, 5) on fixed-point operands, by long division:
\* two digits for the factor 100, ndigits for the rounding; ties go to even.
RECURSIVE DivDigits(_, _, _, _)
DivDigits(q, r, d, k) ==
    IF k = 0 THEN <<q, r>>
    ELSE DivDigits(q * 10 + ((r * 10) \div d), (r * 10) % d, d, k - 1)

Round5(a, total_sum) ==
    LET qr == DivDigits(a \div total_sum, a % total_sum, total_sum, 2 + ndigits)
        q == qr[1]
        r == qr[2]
    IN IF 2 * r > total_sum \/ (2 * r = total_sum /\ q % 2 = 1) THEN q + 1 ELSE q


\* ------------------------------------------------------ the input universe
\* Leaf lineages of 8 ranks. Bacillota and Firmicutes1 differ in the phylum only.
Bacillota ==
    <<  <<"d", "Bacteria">>, <<"p", "Bacillota">>, <<"c", "Bacilli">>, <<"o", "Lactobacillales">>,
        <<"f", "Enterococcaceae">>, <<"g", "Enterococcus">>, <<"s", "Foo">>, <<"t", "SGB1">> >>
Firmicutes1 ==
    <<  <<"d", "Bacteria">>, <<"p", "Firmicutes">>, <<"c", "Bacilli">>, <<"o", "Lactobacillales">>,
        <<"f", "Enterococcaceae">>, <<"g", "Enterococcus">>, <<"s", "Foo">>, <<"t", "SGB1">> >>
Firmicutes2 ==
    <<  <<"d", "Bacteria">>, <<"p", "Firmicutes">>, <<"c", "Bacilli">>, <<"o", "Lactobacillales">>,
        <<"f", "Enterococcaceae">>, <<"g", "Enterococcus">>, <<"s", "Foo">>, <<"t", "SGB2">> >>
Yeast ==
    <<  <<"d", "Eukaryota">>, <<"p", "Ascomycota">>, <<"c", "Saccharomycetes">>,
        <<"o", "Saccharomycetales">>, <<"f", "Saccharomycetales_unclassified">>,
        <<"g", "Candida">>, <<"s", "Bar">>, <<"t", "SGB3">> >>

\* Leaf rows of 3 segments, 'k__A|p__B|t__x' and 'k__A|p__B|t__y': their ancestors
\* above the third rank are the empty lineage.
ShortX == << <<"k", "A">>, <<"p", "B">>, <<"t", "x">> >>
ShortY == << <<"k", "A">>, <<"p", "B">>, <<"t", "y">> >>
TaxidShortX == <<"1", "2", "3">>
TaxidShortY == <<"1", "2", "4">>

\* The second column of a single-sample profile: the '|'-separated taxid path.
TaxidOld == <<"2", "1239", "91061", "186826", "81852", "1350", "1351", "">>
TaxidNew == <<"2", "1239", "91061", "186826", "81852", "1350", "1352", "">>
TaxidTwo == <<"2", "1239", "91061", "186826", "81852", "1350", "1352", "2">>
TaxidYeast == <<"2759", "4890", "4891", "4892", "", "5475", "5476", "">>

HeaderLines ==
    { [kind |-> "mpa", parts |-> r] : r \in {Jun23, Oct22, Jan21} }
CommentLine == [kind |-> "comment"]
\* A data row of a higher rank: no 't__' in it.
OtherLine == [kind |-> "data", clade |-> << <<"d", "Bacteria">> >>]

\* Single-sample rows: clade_name, taxid path, relative abundance, then what follows.
ScalarLeaf(clade, name, val, rest) ==
    [kind |-> "data", clade |-> clade, name |-> name, val |-> val * Scale, rest |-> rest]
ScalarLines ==
    HeaderLines \cup
    { CommentLine, OtherLine,
      [kind |-> "UNCLASSIFIED", val |-> 5 * Scale],
      ScalarLeaf(Bacillota, TaxidOld, 95, <<>>),
      ScalarLeaf(Firmicutes1, TaxidNew, 10, <<>>),
      ScalarLeaf(Firmicutes2, TaxidTwo, 20, <<>>),
      ScalarLeaf(Yeast, TaxidYeast, 10, <<"k__x">>),
      ScalarLeaf(ShortX, TaxidShortX, 10, <<>>),
      ScalarLeaf(ShortY, TaxidShortY, 20, <<>>) }

\* Merged rows: clade_name, then one abundance per sample.
MergedLeaf(clade, vals) ==
    [kind |-> "data", clade |-> clade, vals |-> [n \in 1..Len(vals) |-> vals[n] * Scale]]
MergedLines ==
    HeaderLines \cup
    { CommentLine, OtherLine,
      [kind |-> "UNCLASSIFIED", vals |-> <<5 * Scale, 0>>],
      MergedLeaf(Bacillota, <<95, 50>>),
      MergedLeaf(Firmicutes1, <<50, 50>>),
      MergedLeaf(Firmicutes2, <<50, 95>>),
      MergedLeaf(Yeast, <<50, 50>>),
      MergedLeaf(ShortX, <<50, 50>>) }

\* The table read_oct22_fixes returns: old lineage -> (new lineage, new taxid path).
oct_fixes == [old \in {Bacillota} |-> <<Firmicutes1, TaxidNew>>]

\* ------------------------------------------------ fix_relab_mpa4: reading
\* 't__' in line
HasT(line) == \E k \in 1..Len(line.clade) : line.clade[k][1] = "t"

\* line.replace(old, new) on the segments of the row.
ReplaceSeg(line, old, new) ==
    [line EXCEPT !.clade = [k \in 1..Len(@) |-> IF @[k] = old THEN new ELSE @[k]]]
HasSeg(line, seg) == \E k \in 1..Len(line.clade) : line.clade[k] = seg

FixJun23(line) ==
    IF HasSeg(line, <<"p", "Bacillota">>)
    THEN ReplaceSeg(line, <<"p", "Bacillota">>, <<"p", "Firmicutes">>)
    ELSE IF HasSeg(line, <<"f", "Saccharomycetales_unclassified">>)
    THEN ReplaceSeg(line, <<"f", "Saccharomycetales_unclassified">>, <<"f", "Debaryomycetaceae">>)
    ELSE line

\* FixOct22 with a fault: the identifier is left as it was read.
FixOct22LineageOnly(line, m) ==
    IF line.clade \in DOMAIN oct_fixes
    THEN [line EXCEPT !.clade = oct_fixes[line.clade][1]]
    ELSE line

FixOct22(line, m) ==
    IF line.clade \in DOMAIN oct_fixes
    THEN IF ~m
         THEN [line EXCEPT !.clade = oct_fixes[line.clade][1], !.name = oct_fixes[line.clade][2]]
         ELSE [line EXCEPT !.clade = oct_fixes[line.clade][1]]
    ELSE line

Recognized == {Jun23, Oct22}

\* The row after label fixing, under release rel.
FixLabels(line, rel, m) ==
    IF rel = Jun23 THEN FixJun23(line) ELSE FixOct22(line, m)

Lev(i) == NLevels + 1 - i

\* line[3] if len(line) == 4 else ''
Extra(line) == IF 3 + Len(line.rest) = 4 THEN line.rest[1] ELSE ""

FixHeader ==
    /\ script = "fix_relab_mpa4" /\ pc = "read" /\ Len(rf) < MaxLines
    /\ \E line \in HeaderLines :
        /\ rf' = Append(rf, line)
        /\ release' = line.parts
        /\ wf' = Append(wf, [kind |-> "mpa", parts |-> RewriteHeader(line.parts)])
    /\ UNCHANGED <<script, merged, pc, unclassified_fraction, taxa_levs, heap, ncols,
                   sum_level, level, rolled>>
    /\ UNCHANGED gtdbVars

FixComment ==
    /\ script = "fix_relab_mpa4" /\ pc = "read" /\ Len(rf) < MaxLines
    /\ rf' = Append(rf, CommentLine)
    /\ wf' = Append(wf, CommentLine)
    /\ UNCHANGED <<script, pc>>
    /\ UNCHANGED fixVars
    /\ UNCHANGED gtdbVars

FixUnclassified ==
    /\ script = "fix_relab_mpa4" /\ pc = "read" /\ Len(rf) < MaxLines
    /\ \E line \in (IF merged THEN MergedLines ELSE ScalarLines) :
        /\ line.kind = "UNCLASSIFIED"
        /\ rf' = Append(rf, line)
        /\ wf' = Append(wf, line)
        /\ unclassified_fraction' = IF ~merged THEN <<line.val>> ELSE line.vals
    /\ UNCHANGED <<script, merged, pc, release, taxa_levs, heap, ncols, sum_level, level, rolled>>
    /\ UNCHANGED gtdbVars

\* A row without 't__': nothing happens.
FixOther ==
    /\ script = "fix_relab_mpa4" /\ pc = "read" /\ Len(rf) < MaxLines
    /\ \E line \in (IF merged THEN MergedLines ELSE ScalarLines) :
        /\ line.kind = "data" /\ ~HasT(line)
        /\ rf' = Append(rf, line)
    /\ UNCHANGED <<script, pc, wf>>
    /\ UNCHANGED fixVars
    /\ UNCHANGED gtdbVars

\* A row with 't__' under a release that is neither of the two: error(..., exit=True).
FixLeafError ==
    /\ script = "fix_relab_mpa4" /\ pc = "read" /\ Len(rf) < MaxLines
    /\ release \notin Recognized
    /\ \E line \in (IF merged THEN MergedLines ELSE ScalarLines) :
        /\ line.kind = "data" /\ HasT(line)
        /\ rf' = Append(rf, line)
    /\ pc' = "error"
    /\ UNCHANGED <<script, wf>>
    /\ UNCHANGED fixVars
    /\ UNCHANGED gtdbVars

\* The deepest table after the row is stored: the entry is assigned, not added to.
StoreScalar(t, line) ==
    [t EXCEPT ![Lev(1)] = Put(@, line.clade, <<line.name, line.val, Extra(line)>>)]

FixLeaf ==
    /\ script = "fix_relab_mpa4" /\ pc = "read" /\ Len(rf) < MaxLines
    /\ release \in Recognized
    /\ \E raw \in (IF merged THEN MergedLines ELSE ScalarLines) :
        /\ raw.kind = "data" /\ HasT(raw)
        /\ rf' = Append(rf, raw)
        /\ LET line == FixLabels(raw, release, merged)
           IN IF ~merged
              THEN /\ taxa_levs' = StoreScalar(taxa_levs, line)
                   /\ UNCHANGED <<heap, ncols>>
              ELSE /\ heap' = Append(heap, line.vals)
                   /\ taxa_levs' = [taxa_levs EXCEPT ![Lev(1)] = Put(@, line.clade, Len(heap) + 1)]
                   /\ ncols' = Len(line.vals)
    /\ UNCHANGED <<script, merged, pc, wf, release, unclassified_fraction, sum_level, level, rolled>>
    /\ UNCHANGED gtdbVars


\* ------------------------------- assign_higher_taxonomic_levels (the roll-up)
\* AccumulateScalar with a fault: the parent takes the last child's abundance.
AccumulateScalarOverwrite(parentCell, childCell) ==
    [parentCell EXCEPT ![2] = childCell[2]]

\* taxa_levs[-j][gg][1] += taxa_levs[-i][ss][1]
AccumulateScalar(parentCell, childCell) ==
    [parentCell EXCEPT ![2] = @ + childCell[2]]

\* The inner loop of one level, from the k-th entry of the child table on.
RECURSIVE RollScalar(_, _, _)
RollScalar(child, parent, k) ==
    IF k > Len(child) THEN parent
    ELSE LET ss == child[k][1]
             cell == child[k][2]
             gg == Parent(ss)
             gg_n == Parent(cell[1])
         IN RollScalar(child,
                       IF ~Has(parent, gg)
                       THEN Put(parent, gg, <<gg_n, cell[2], "">>)
                       ELSE Put(parent, gg, AccumulateScalar(Get(parent, gg), cell)),
                       k + 1)

RECURSIVE AssignScalar(_, _)
AssignScalar(t, i) ==
    IF i > 7 THEN t
    ELSE AssignScalar([t EXCEPT ![Lev(i + 1)] = RollScalar(t[Lev(i)], @, 1)], i + 1)

\* Merged mode. th = [t |-> the tables, h |-> the heap]. A new parent is bound to
\* the child's own list object; np.add returns a new array.
RECURSIVE RollMerged(_, _, _, _)
RollMerged(th, i, j, k) ==
    IF k > Len(th.t[Lev(i)]) THEN th
    ELSE LET ss == th.t[Lev(i)][k][1]
             ref == th.t[Lev(i)][k][2]
             gg == Parent(ss)
         IN RollMerged(
                IF ~Has(th.t[Lev(j)], gg)
                THEN [th EXCEPT !.t[Lev(j)] = Put(@, gg, ref)]
                ELSE [t |-> [th.t EXCEPT ![Lev(j)] = Put(@, gg, Len(th.h) + 1)],
                      h |-> Append(th.h, AddVec(th.h[Get(th.t[Lev(j)], gg)], th.h[ref]))],
                i, j, k + 1)

RECURSIVE AssignMerged(_, _)
AssignMerged(th, i) ==
    IF i > 7 THEN th ELSE AssignMerged(RollMerged(th, i, i + 1, 1), i + 1)

\* The abundances a cell holds, as a vector (one entry in single-sample mode).
CellVals(cell, h, m) == IF m THEN h[cell] ELSE <<cell[2]>>

Snapshot(t, h, m) ==
    [l \in 1..NLevels |-> [k \in 1..Len(t[l]) |-> <<t[l][k][1], CellVals(t[l][k][2], h, m)>>]]

\* The input has ended: line 142.
Aggregate ==
    /\ script = "fix_relab_mpa4" /\ pc = "read"
    /\ pc' = "aggregated"
    /\ IF ~merged
       THEN /\ taxa_levs' = AssignScalar(taxa_levs, 1)
            /\ heap' = heap
       ELSE LET th == AssignMerged([t |-> taxa_levs, h |-> heap], 1)
            IN /\ taxa_levs' = th.t
               /\ heap' = th.h
    /\ rolled' = Snapshot(taxa_levs', heap', merged)
    /\ UNCHANGED <<script, merged, rf, wf, release, unclassified_fraction, ncols,
                   sum_level, level>>
    /\ UNCHANGED gtdbVars

\* ------------------------------------------- fix_relab_mpa4: normalisation
\* TotalSum with a fault: the unclassified fraction is left out.
TotalSumTaxaOnly(s, u) == s

\* total_sum = sum_level[level] + unclassified_fraction
TotalSum(s, u) == s + u

RECURSIVE SumTable(_, _, _, _, _)
SumTable(tab, h, m, acc, k) ==
    IF k > Len(tab) THEN acc
    ELSE SumTable(tab, h, m, AddVec(acc, CellVals(tab[k][2], h, m)), k + 1)

\* Lines 146-150 and 163-169. In merged mode ncols is unbound when no leaf row
\* was stored: the run ends in a NameError.
SumLevels ==
    /\ script = "fix_relab_mpa4" /\ pc = "aggregated"
    /\ IF merged /\ ncols = 0
       THEN /\ pc' = "crash"
            /\ UNCHANGED <<unclassified_fraction, sum_level>>
       ELSE /\ pc' = "normalize"
            /\ unclassified_fraction' =
                 IF merged /\ unclassified_fraction = <<>> THEN Zeros(ncols)
                 ELSE unclassified_fraction
            /\ sum_level' =
                 [l \in 1..NLevels |->
                    SumTable(taxa_levs[l], heap, merged, Zeros(IF merged THEN ncols ELSE 1), 1)]
    /\ UNCHANGED <<script, merged, rf, wf, release, taxa_levs, heap, ncols, level, rolled>>
    /\ UNCHANGED gtdbVars

TaxonRow(lev, tax, name, vals, extra) ==
    [kind |-> "taxon", level |-> lev, tax |-> tax, name |-> name, vals |-> vals, extra |-> extra]

\* One level of the single-sample loop, lines 153-157: st = [t |-> table, w |-> output,
\* ok |-> no division by zero so far].
RECURSIVE NormScalar(_, _, _, _)
NormScalar(st, lev, total_sum, k) ==
    IF k > Len(st.t) \/ ~st.ok THEN st
    ELSE IF total_sum = 0 THEN [st EXCEPT !.ok = FALSE]
    ELSE LET tax == st.t[k][1]
             cell == st.t[k][2]
             new == [cell EXCEPT ![2] = Round5(@, total_sum)]
         IN NormScalar([t |-> [st.t EXCEPT ![k] = <<tax, new>>],
                        w |-> Append(st.w, TaxonRow(lev, tax, new[1], <<new[2]>>, new[3])),
                        ok |-> TRUE],
                       lev, total_sum, k + 1)

\* The cells of one list object rescaled in place, lines 174-176.
RECURSIVE RescaleCols(_, _, _, _)
RescaleCols(v, sums, u, n) ==
    IF n > Len(v) THEN v
    ELSE RescaleCols([v EXCEPT ![n] = Round5(@, TotalSum(sums[n], u[n]))], sums, u, n + 1)

ColsOk(v, sums, u) == \A n \in 1..Len(v) : TotalSum(sums[n], u[n]) # 0

\* One level of the merged loop, lines 173-177: st = [h |-> heap, w |-> output, ok].
RECURSIVE NormMerged(_, _, _, _, _, _)
NormMerged(st, tab, lev, sums, u, k) ==
    IF k > Len(tab) \/ ~st.ok THEN st
    ELSE LET tax == tab[k][1]
             ref == tab[k][2]
         IN IF ~ColsOk(st.h[ref], sums, u) THEN [st EXCEPT !.ok = FALSE]
            ELSE LET v == RescaleCols(st.h[ref], sums, u, 1)
                 IN NormMerged([h |-> [st.h EXCEPT ![ref] = v],
                                w |-> Append(st.w, TaxonRow(lev, tax, <<>>, v, "")),
                                ok |-> TRUE],
                               tab, lev, sums, u, k + 1)

\* One iteration of the loop over levels (lines 153-160, 172-180).
NormalizeLevel ==
    /\ script = "fix_relab_mpa4" /\ pc = "normalize"
    /\ LET l == level + 1
       IN IF ~merged
          THEN LET st == NormScalar([t |-> taxa_levs[l], w |-> wf, ok |-> TRUE], level,
                                    TotalSum(sum_level[l][1], unclassified_fraction[1]), 1)
               IN /\ taxa_levs' = [taxa_levs EXCEPT ![l] = st.t]
                  /\ wf' = st.w
                  /\ heap' = heap
                  /\ pc' = IF ~st.ok THEN "crash"
                           ELSE IF level + 1 = NLevels THEN "done" ELSE "normalize"
          ELSE LET st == NormMerged([h |-> heap, w |-> wf, ok |-> TRUE], taxa_levs[l], level,
                                    sum_level[l], unclassified_fraction, 1)
               IN /\ heap' = st.h
                  /\ wf' = st.w
                  /\ taxa_levs' = taxa_levs
                  /\ pc' = IF ~st.ok THEN "crash"
                           ELSE IF level + 1 = NLevels THEN "done" ELSE "normalize"
    /\ level' = level + 1
    /\ UNCHANGED <<script, merged, rf, release, unclassified_fraction, ncols, sum_level, rolled>>
    /\ UNCHANGED gtdbVars

FixInit ==
    /\ script = "fix_relab_mpa4"
    /\ merged \in BOOLEAN
    /\ pc = "read"
    /\ rf = <<>>
    /\ wf = <<>>
    /\ release = None
    /\ unclassified_fraction = IF merged THEN <<>> ELSE <<0>>
    /\ taxa_levs = [l \in 1..NLevels |-> <<>>]
    /\ heap = <<>>
    /\ ncols = 0
    /\ sum_level = <<>>
    /\ level = 0
    /\ rolled = <<>>
    /\ unclassified = 0
    /\ abundances = <<>>
    /\ total4level = <<>>

FixNext ==
    \/ FixHeader
    \/ FixComment
    \/ FixUnclassified
    \/ FixOther
    \/ FixLeafError
    \/ FixLeaf
    \/ Aggregate
    \/ SumLevels
    \/ NormalizeLevel

\* ============================================= sgb_to_gtdb_profile.py
\* GTDB lineages are kept as character sequences, because the parent of a
\* lineage is computed by a textual replace.
RECURSIVE JoinSemi(_)
JoinSemi(segs) ==
    IF Len(segs) = 0 THEN <<>>
    ELSE IF Len(segs) = 1 THEN segs[1]
    ELSE segs[1] \o <<";">> \o JoinSemi(Tail(segs))

\* tax.split(';')[-1]
RECURSIVE LastSegment(_)
LastSegment(tax) ==
    IF tax = <<>> THEN <<>>
    ELSE IF tax[Len(tax)] = ";" THEN <<>>
    ELSE Append(LastSegment(Front(tax)), tax[Len(tax)])

\* tax.split(';')
RECURSIVE SplitSemi(_)
SplitSemi(tax) ==
    LET last == LastSegment(tax)
    IN IF Len(last) = Len(tax) THEN <<last>>
       ELSE Append(SplitSemi(SubSeq(tax, 1, Len(tax) - Len(last) - 1)), last)

OccursAt(str, pat, i) ==
    i + Len(pat) - 1 <= Len(str) /\ SubSeq(str, i, i + Len(pat) - 1) = pat

\* str.replace(pat, ''): every non-overlapping occurrence, from the left.
RECURSIVE RemoveAll(_, _, _)
RemoveAll(str, pat, i) ==
    IF i > Len(str) THEN <<>>
    ELSE IF OccursAt(str, pat, i) THEN RemoveAll(str, pat, i + Len(pat))
    ELSE <<str[i]>> \o RemoveAll(str, pat, i + 1)

\* NewTax with a fault: the lineage is passed up unshortened.
NewTaxUnshortened(tax) == tax

\* new_tax = tax.replace(';{}'.format(tax.split(';')[-1]), '')
NewTax(tax) == RemoveAll(tax, <<";">> \o LastSegment(tax), 1)

RECURSIVE Reverse(_)
Reverse(s) == IF s = <<>> THEN <<>> ELSE Append(Reverse(Tail(s)), Head(s))

tax_levels == <<"d", "p", "c", "o", "f", "g", "s">>

\* WriteOrder with a fault: the list is left reversed after the roll-up.
WriteOrderReversed == Reverse(tax_levels)

\* tax_levels as the writing loop finds it, reversed twice (lines 76 and 84).
WriteOrder == Reverse(Reverse(tax_levels))

\* The table read from <database>_SGB2GTDB.tsv.
X(n) == <<"x", n>>
G(n) == <<n>>
sgb2gtdb ==
    [sgb \in {"SGB1", "SGB2", "SGB3", "SGB4"} |->
        CASE sgb = "SGB1" -> JoinSemi(<<X("1"), X("2"), X("3")>>)
          [] sgb = "SGB2" -> JoinSemi(<<G("d"), G("p"), G("c"), G("o"), G("f"), G("g"), G("s")>>)
          [] sgb = "SGB3" -> JoinSemi(<<G("d"), G("p"), G("c"), G("o"), G("f"), G("g"), G("t")>>)
          [] sgb = "SGB4" -> JoinSemi(<<G("d"), G("p"), G("c"), G("o"), G("f"), G("g"), G("g")>>)]

GtdbLeafLine(sgb, val) ==
    [kind |-> "data", clade |-> Front(Bacillota) \o << <<"t", sgb>> >>, name |-> TaxidOld,
     val |-> val]
GtdbLeafLines ==
    { GtdbLeafLine("SGB1", 95), GtdbLeafLine("SGB2", 10), GtdbLeafLine("SGB3", 20),
      GtdbLeafLine("SGB4", 10), GtdbLeafLine("SGB9", 10) }
GtdbHeaderLine == [kind |-> "mpa", parts |-> Jun23]
GtdbUnclassifiedLine == [kind |-> "UNCLASSIFIED", val |-> 5]

\* line[0].split('|')[-1][3:]
SgbOf(line) == line.clade[Len(line.clade)][2]

GtdbHeader ==
    /\ script = "sgb_to_gtdb_profile" /\ pc = "read" /\ Len(rf) < MaxLines
    /\ rf' = Append(rf, GtdbHeaderLine)
    /\ wf' = wf \o <<GtdbHeaderLine, [kind |-> "comment"]>>
    /\ UNCHANGED <<script, pc>>
    /\ UNCHANGED fixVars
    /\ UNCHANGED gtdbVars

GtdbUnclassified ==
    /\ script = "sgb_to_gtdb_profile" /\ pc = "read" /\ Len(rf) < MaxLines
    /\ rf' = Append(rf, GtdbUnclassifiedLine)
    /\ unclassified' = GtdbUnclassifiedLine.val
    /\ wf' = Append(wf, [kind |-> "UNCLASSIFIED", val |-> unclassified'])
    /\ UNCHANGED <<script, pc, abundances, total4level>>
    /\ UNCHANGED fixVars

\* A line that is no header, no UNCLASSIFIED row and holds no 't__SGB'.
GtdbOther ==
    /\ script = "sgb_to_gtdb_profile" /\ pc = "read" /\ Len(rf) < MaxLines
    /\ \E line \in {CommentLine, OtherLine} : rf' = Append(rf, line)
    /\ UNCHANGED <<script, pc, wf>>
    /\ UNCHANGED fixVars
    /\ UNCHANGED gtdbVars

\* Lines 71-75.
GtdbLeaf ==
    /\ script = "sgb_to_gtdb_profile" /\ pc = "read" /\ Len(rf) < MaxLines
    /\ \E line \in GtdbLeafLines :
        /\ SgbOf(line) \in DOMAIN sgb2gtdb
        /\ rf' = Append(rf, line)
        /\ LET gtdb_tax == sgb2gtdb[SgbOf(line)]
               s0 == IF ~Has(abundances["s"], gtdb_tax)
                     THEN Put(abundances["s"], gtdb_tax, 0) ELSE abundances["s"]
           IN abundances' = [abundances EXCEPT !["s"] = Put(s0, gtdb_tax, Get(s0, gtdb_tax) + line.val)]
    /\ UNCHANGED <<script, pc, wf, unclassified, total4level>>
    /\ UNCHANGED fixVars

\* sgb2gtdb[...] of an identifier the table lacks: KeyError.
GtdbLookupMiss ==
    /\ script = "sgb_to_gtdb_profile" /\ pc = "read" /\ Len(rf) < MaxLines
    /\ \E line \in GtdbLeafLines :
        /\ SgbOf(line) \notin DOMAIN sgb2gtdb
        /\ rf' = Append(rf, line)
    /\ pc' = "crash"
    /\ UNCHANGED <<script, wf>>
    /\ UNCHANGED fixVars
    /\ UNCHANGED gtdbVars

\* The inner loop of lines 78-83, from the k-th entry of table tax_level on.
RECURSIVE GtdbRollLevel(_, _, _, _)
GtdbRollLevel(ab, tax_level, new_level, k) ==
    IF k > Len(ab[tax_level]) THEN ab
    ELSE LET tax == ab[tax_level][k][1]
             new_tax == NewTax(tax)
             n0 == IF ~Has(ab[new_level], new_tax)
                   THEN Put(ab[new_level], new_tax, 0) ELSE ab[new_level]
         IN GtdbRollLevel(
                [ab EXCEPT ![new_level] = Put(n0, new_tax, Get(n0, new_tax) + ab[tax_level][k][2])],
                tax_level, new_level, k + 1)

\* for tax_level in tax_levels[:-1], on the reversed list levels.
RECURSIVE GtdbRoll(_, _, _)
GtdbRoll(ab, levels, i) ==
    IF i > Len(levels) - 1 THEN ab
    ELSE GtdbRoll(GtdbRollLevel(ab, levels[i], levels[i + 1], 1), levels, i + 1)

\* The input has ended: lines 76-84.
GtdbRollUp ==
    /\ script = "sgb_to_gtdb_profile" /\ pc = "read"
    /\ abundances' = GtdbRoll(abundances, Reverse(tax_levels), 1)
    /\ pc' = "aggregated"
    /\ UNCHANGED <<script, rf, wf, unclassified, total4level>>
    /\ UNCHANGED fixVars

RECURSIVE GCD(_, _)
GCD(a, b) == IF b = 0 THEN a ELSE GCD(b, a % b)

\* The quotient num / den, in lowest terms.
Frac(num, den) == <<num \div GCD(num, den), den \div GCD(num, den)>>

\* total4level[x] = sum of the values of abundances[x]
SumValues(d) == SumSeq([k \in 1..Len(d) |-> d[k][2]])

\* The normalisation divisor of a level.
Total4(d, u) == SumValues(d)

RECURSIVE GtdbRowsOf(_, _, _, _)
GtdbRowsOf(d, lev, tot, k) ==
    IF k > Len(d) THEN <<>>
    ELSE <<[kind |-> "taxon", level |-> lev, tax |-> d[k][1],
            val |-> Frac(d[k][2] * 100, tot)]>> \o GtdbRowsOf(d, lev, tot, k + 1)

RECURSIVE GtdbRows(_, _, _, _)
GtdbRows(ab, tot, order, i) ==
    IF i > Len(order) THEN <<>>
    ELSE GtdbRowsOf(ab[order[i]], order[i], tot[order[i]], 1) \o GtdbRows(ab, tot, order, i + 1)

\* Lines 85-88. A level whose values sum to zero ends the run in a ZeroDivisionError.
GtdbWrite ==
    /\ script = "sgb_to_gtdb_profile" /\ pc = "aggregated"
    /\ total4level' = [x \in DOMAIN abundances |-> Total4(abundances[x], unclassified)]
    /\ IF \E x \in DOMAIN abundances : Len(abundances[x]) > 0 /\ total4level'[x] = 0
       THEN /\ pc' = "crash"
            /\ wf' = wf
       ELSE /\ pc' = "done"
            /\ wf' = wf \o GtdbRows(abundances, total4level', WriteOrder, 1)
    /\ UNCHANGED <<script, rf, unclassified, abundances>>
    /\ UNCHANGED fixVars

GtdbInit ==
    /\ script = "sgb_to_gtdb_profile"
    /\ merged = FALSE
    /\ pc = "read"
    /\ rf = <<>>
    /\ wf = <<>>
    /\ release = None
    /\ unclassified_fraction = <<0>>
    /\ taxa_levs = <<>>
    /\ heap = <<>>
    /\ ncols = 0
    /\ sum_level = <<>>
    /\ level = 0
    /\ rolled = <<>>
    /\ unclassified = 0
    /\ abundances = [x \in {tax_levels[k] : k \in 1..Len(tax_levels)} |-> <<>>]
    /\ total4level = <<>>

GtdbNext ==
    \/ GtdbHeader
    \/ GtdbUnclassified
    \/ GtdbOther
    \/ GtdbLeaf
    \/ GtdbLookupMiss
    \/ GtdbRollUp
    \/ GtdbWrite

Init == FixInit \/ GtdbInit
Next == FixNext \/ GtdbNext
Spec == Init /\ [][Next]_vars


\* ================================================================ claims
Fix == script = "fix_relab_mpa4"
Gtdb == script = "sgb_to_gtdb_profile"

IsLeafRow(line) == line.kind = "data" /\ HasT(line)
IsTaxon(row) == row.kind = "taxon"
TaxonRowsOf(out) == SelectSeq(out, IsTaxon)

\* The input starts with a header of release tag and holds no other header.
OnlyHeaderIs(tag) ==
    /\ Len(rf) >= 1
    /\ rf[1] = [kind |-> "mpa", parts |-> tag]
    /\ \A i \in 2..Len(rf) : rf[i].kind # "mpa"

Abs(x) == IF x < 0 THEN -x ELSE x

\* The entries of table tab whose lineage, with its last segment dropped, is P.
ChildrenOf(tab, P) == SelectSeq(tab, LAMBDA e : Parent(e[1]) = P)

\* ---------------------------------------------------------------------- C1
\* C1: after the roll-up and before renormalisation, in single-sample and in
\* merged mode, every lineage P of every rank above the leaf rank holds the sum
\* of the abundances of the lineages of the next deeper rank whose parent is P,
\* and every lineage of a deeper rank has its parent in the rank above.
C1_ParentIsSumOfChildren ==
    (Fix /\ pc = "aggregated") =>
        \A l \in 1..(NLevels - 1) :
            /\ \A k \in 1..Len(taxa_levs[l]) :
                 LET P == taxa_levs[l][k][1]
                     own == CellVals(taxa_levs[l][k][2], heap, merged)
                 IN own = SumTable(ChildrenOf(taxa_levs[l + 1], P), heap, merged,
                                   Zeros(Len(own)), 1)
            /\ \A c \in 1..Len(taxa_levs[l + 1]) :
                 Has(taxa_levs[l], Parent(taxa_levs[l + 1][c][1]))

\* The leaves A|B|x = 10 and A|B|y = 20 are rolled up: A|B holds 30.
C1_Witness ==
    /\ Fix /\ ~merged /\ pc = "aggregated"
    /\ Len(ChildrenOf(taxa_levs[NLevels], Front(ShortX))) = 2
    /\ Has(taxa_levs[NLevels - 1], Front(ShortX))
    /\ Get(taxa_levs[NLevels - 1], Front(ShortX))[2] = 30 * Scale

\* ---------------------------------------------------------------------- C2
ColumnOfLevel(out, lev, n) ==
    SumSeq([k \in 1..Len(TaxonRowsOf(out)) |->
              IF TaxonRowsOf(out)[k].level = lev THEN TaxonRowsOf(out)[k].vals[n] ELSE 0])

\* C2: in the finished output of fix_relab_mpa4, for every rank with a taxon and
\* every sample column, the values written for the rank plus the unclassified
\* value are 100 within 1e-4.
C2_Conservation ==
    (Fix /\ pc = "done") =>
        \A l \in 1..NLevels :
            Len(taxa_levs[l]) > 0 =>
                \A n \in 1..Len(unclassified_fraction) :
                    Abs(ColumnOfLevel(wf, l - 1, n) + unclassified_fraction[n] - 100 * Scale)
                        <= Scale \div 10000

\* ---------------------------------------------------------------------- C3
\* C3: in merged mode every written value is round(100 * a / (S + U), 5), with a
\* the cell as it stood after the roll-up: each cell is rescaled exactly once.
C3_EachCellRescaledOnce ==
    (Fix /\ merged /\ pc \in {"normalize", "done"}) =>
        \A i \in 1..Len(wf) :
            IsTaxon(wf[i]) =>
                \A n \in 1..Len(wf[i].vals) :
                    wf[i].vals[n] =
                        Round5(Get(rolled[wf[i].level + 1], wf[i].tax)[n],
                               sum_level[wf[i].level + 1][n] + unclassified_fraction[n])

\* ---------------------------------------------------------------------- C4
\* C4: get_gtdb_profile writes for every taxon 100 * value / (rank sum + unclassified).
C4_DenominatorHoldsUnclassified ==
    (Gtdb /\ pc = "done") =>
        \A i \in 1..Len(wf) :
            IsTaxon(wf[i]) =>
                wf[i].val = Frac(100 * Get(abundances[wf[i].level], wf[i].tax),
                                 SumValues(abundances[wf[i].level]) + unclassified)

\* ---------------------------------------------------------------------- C5
LeafRowsRead == SelectSeq(rf, IsLeafRow)
Prefix(segs, j) == JoinSemi(SubSeq(segs, 1, j))

\* Every segment after the first occurs, with its leading ';', once in its prefix.
CleanLineage(segs) ==
    \A j \in 2..Len(segs) :
        Cardinality({i \in 1..Len(Prefix(segs, j)) :
                        OccursAt(Prefix(segs, j), <<";">> \o segs[j], i)}) = 1

\* C5 as claimed: a single leaf row mapped to a lineage of k segments gives
\* exactly k taxon rows, one for each prefix, each with the value 100.
C5_OneRowPerPrefix ==
    (Gtdb /\ pc = "done" /\ Len(LeafRowsRead) = 1) =>
        LET segs == SplitSemi(sgb2gtdb[SgbOf(LeafRowsRead[1])])
            rows == TaxonRowsOf(wf)
        IN /\ Len(rows) = Len(segs)
           /\ \A j \in 1..Len(segs) :
                Cardinality({k \in 1..Len(rows) : rows[k].tax = Prefix(segs, j)}) = 1
           /\ \A k \in 1..Len(rows) : rows[k].val = <<100, 1>>

\* C5 amended: a single leaf row gives one taxon row for each of the 7 ranks, each
\* with the value 100; when the lineage has exactly 7 segments and is clean, the
\* rows are its 7 prefixes, each written once.
C5_OneRowPerRank ==
    (Gtdb /\ pc = "done" /\ Len(LeafRowsRead) = 1) =>
        LET segs == SplitSemi(sgb2gtdb[SgbOf(LeafRowsRead[1])])
            rows == TaxonRowsOf(wf)
        IN /\ Len(rows) = Len(tax_levels)
           /\ \A k \in 1..Len(rows) : rows[k].val = <<100, 1>>
           /\ (Len(segs) = Len(tax_levels) /\ CleanLineage(segs)) =>
                \A j \in 1..Len(segs) :
                    Cardinality({k \in 1..Len(rows) : rows[k].tax = Prefix(segs, j)}) = 1

C5_Witness ==
    /\ Gtdb /\ pc = "done" /\ Len(LeafRowsRead) = 1
    /\ SgbOf(LeafRowsRead[1]) = "SGB2"
    /\ Len(TaxonRowsOf(wf)) = 7
    /\ TaxonRowsOf(wf)[2].tax = <<"d", ";", "p">>

\* ---------------------------------------------------------------------- C6
EndToEndInput ==
    /\ Fix /\ ~merged /\ Len(rf) = 3
    /\ rf[1] = [kind |-> "mpa", parts |-> Jun23]
    /\ {rf[2], rf[3]} = { [kind |-> "UNCLASSIFIED", val |-> 5 * Scale],
                          ScalarLeaf(Bacillota, TaxidOld, 95, <<>>) }

DomainRowIs(v) ==
    \E i \in 1..Len(wf) :
        /\ IsTaxon(wf[i]) /\ wf[i].level = 0
        /\ wf[i].tax = << <<"d", "Bacteria">> >>
        /\ wf[i].vals = <<v>>

\* C6 as claimed: header Jun23, UNCLASSIFIED 5.0 and one leaf of 95.0 give the
\* row d__Bacteria the value 100.0.
C6_DomainRowIs100 == (EndToEndInput /\ pc = "done") => DomainRowIs(100 * Scale)

\* C6 amended: the row d__Bacteria carries 95.0, which is 100 * 95 / (95 + 5).
C6_DomainRowIs95 == (EndToEndInput /\ pc = "done") => DomainRowIs(95 * Scale)

C6_Witness == EndToEndInput /\ pc = "done" /\ DomainRowIs(95 * Scale)

\* ---------------------------------------------------------------------- C7
\* C7: while no header line read carries one of the two known release tags, the
\* run is still reading or has ended in the fatal error, and no taxon row is written.
C7_UnknownReleaseIsFatal ==
    (Fix /\ \A i \in 1..Len(rf) : rf[i].kind = "mpa" => rf[i].parts \notin Recognized) =>
        /\ pc \in {"read", "error"}
        /\ TaxonRowsOf(wf) = <<>>

Depth(row) ==
    IF Fix THEN row.level
    ELSE (CHOOSE k \in 1..Len(tax_levels) : tax_levels[k] = row.level) - 1

TaxaAfterPassThrough ==
    \A i \in 1..Len(wf) : \A j \in (i + 1)..Len(wf) : IsTaxon(wf[i]) => IsTaxon(wf[j])

\* C9 as claimed: taxon rows follow the header and the pass-through lines;
\* fix_relab_mpa4 writes the ranks from the shallowest to the deepest and
\* get_gtdb_profile from the deepest to the shallowest.
C9_OrderAsClaimed ==
    /\ TaxaAfterPassThrough
    /\ \A i \in 1..Len(wf) : \A j \in (i + 1)..Len(wf) :
         (IsTaxon(wf[i]) /\ IsTaxon(wf[j])) =>
             IF Fix THEN Depth(wf[i]) <= Depth(wf[j]) ELSE Depth(wf[i]) >= Depth(wf[j])

\* C9 amended: both pipelines write the ranks from the shallowest to the deepest.
C9_ShallowestFirst ==
    /\ TaxaAfterPassThrough
    /\ \A i \in 1..Len(wf) : \A j \in (i + 1)..Len(wf) :
         (IsTaxon(wf[i]) /\ IsTaxon(wf[j])) => Depth(wf[i]) <= Depth(wf[j])

C9_Witness ==
    /\ Gtdb /\ pc = "done"
    /\ Len(wf) >= 3
    /\ ~IsTaxon(wf[1])
    /\ IsTaxon(wf[Len(wf)]) /\ wf[Len(wf)].level = "s"
    /\ \E i \in 1..Len(wf) : IsTaxon(wf[i]) /\ wf[i].level = "d"

\* --------------------------------------------------------------------- C10
RowVals(line) == IF merged THEN line.vals ELSE <<line.val>>

RECURSIVE SumRows(_, _)
SumRows(rows, acc) ==
    IF rows = <<>> THEN acc ELSE SumRows(Tail(rows), AddVec(acc, RowVals(Head(rows))))

\* The leaf rows read whose lineage is key after label fixing under release tag.
RowsEndingAt(key, tag) ==
    SelectSeq(rf, LAMBDA line : IsLeafRow(line) /\ FixLabels(line, tag, merged).clade = key)

\* C10: the entry of the deepest rank table for a lineage holds the sum of the
\* abundances of all leaf rows that have that lineage after label fixing.
C10_LeafRowsAccumulate ==
    \A tag \in Recognized :
        (Fix /\ pc \in {"read", "aggregated"} /\ OnlyHeaderIs(tag)) =>
            \A k \in 1..Len(taxa_levs[NLevels]) :
                LET own == CellVals(taxa_levs[NLevels][k][2], heap, merged)
                IN own = SumRows(RowsEndingAt(taxa_levs[NLevels][k][1], tag), Zeros(Len(own)))

====
